---- MODULE Spec2Model ----
(***************************************************************************)
(* PitchConnect ML service (ml-service/main.py, models/injury_predictor.py) *)
(* as a state machine: the ModelManager lifecycle (init_models), the two    *)
(* prediction methods, and the risk classifier of InjuryPredictor.          *)
(*                                                                          *)
(* Real numbers are fixed-point with two decimals: 0.3 is 30, 7 hours of    *)
(* sleep is 700.  The trained models are black boxes: what predict and      *)
(* predict_proba return is an input of the prediction actions.              *)
(***************************************************************************)
EXTENDS Integers, Sequences, FiniteSets, TLC

\* ------------------------------------------------------------------ bounds

\* init_models invocations in one behaviour (all threads together).
MaxCalls == 2

\* ----------------------------------------------------------------- domains

SlotSet == {"injury", "performance"}

Other(s) == IF s = "injury" THEN "performance" ELSE "injury"

\* The threads that may call init_models; the sequential specifications use one.
Threads == {1, 2}

SeqThreads == {1}

\* The step of the calling thread that an environment failure hits: joblib.load
\* raising, training raising, joblib.dump raising.  A call sees at most one
\* failure, since the first one leaves the try block.
NoFault == <<"none", "none">>

Faults == (SlotSet \X {"load", "train", "save"}) \cup {NoFault}

\* Validated PredictionRequest values on both sides of every threshold the code
\* compares a field with (training_load and sleep_hours in hundredths).
Profiles ==
    [age : {25}, matches_played : {30, 31}, injury_history : {2, 3},
     training_load : {80, 81}, sleep_hours : {699, 700}, game_minutes : {2500}]

\* What predict_proba may hand back, in hundredths: the thresholds, their
\* neighbours, the ends of [0,1] and values outside it.
InjuryRaw == {-500, 0, 29, 30, 59, 60, 79, 80, 100, 500}

\* What the regressor's predict may hand back.
PerformanceRaw == {-500, 0, 40, 41, 70, 71, 100, 500}

\* The requests served while the lifecycle is explored in full: the profile of
\* the specification's first scenario and one mid-range model output.
LifecycleProfiles ==
    {[age |-> 25, matches_played |-> 35, injury_history |-> 3,
      training_load |-> 90, sleep_hours |-> 500, game_minutes |-> 2500]}

LifecycleRaw == {50}

\* Probabilities handed to InjuryPredictor.predict.
PredictorRaw == {0, 24, 25, 29, 30, 49, 50, 59, 60, 74, 75, 79, 80, 100}

VARIABLES
    injury_model,        \* ModelManager.injury_model: "None", "loaded", "trained"
    performance_model,   \* ModelManager.performance_model
    models_loaded,       \* ModelManager.models_loaded
    disk,                \* the file at each slot's path: "missing", "ok", "corrupt"
    pc,                  \* each thread's position in init_models
    cur,                 \* the slot each thread is working on
    fault,               \* the failure (if any) the environment holds for the call
    outcome,             \* how each thread's latest call ended
    log,                 \* the store/training operations of each thread's latest call
    disk0,               \* the disk as it was when each thread's latest call began
    ncalls,              \* init_models invocations so far
    ntrain,              \* _train_*_model calls per slot (call counter)
    nsave,               \* joblib.dump calls per slot (call counter)
    okInit,              \* per slot: its load, or its train and its save, has succeeded
    failed,              \* some init_models call has raised
    req,                 \* the latest prediction request
    resp                 \* the latest prediction response

manager == <<injury_model, performance_model, models_loaded>>

threads == <<pc, cur, fault, outcome, log, disk0>>

counters == <<ncalls, ntrain, nsave>>

history == <<okInit, failed>>

http == <<req, resp>>

vars == <<manager, disk, threads, counters, history, http>>

\* ---------------------------------------------------------------- manager

Handle(s) == IF s = "injury" THEN injury_model ELSE performance_model

SetHandle(s, h) ==
    IF s = "injury"
    THEN injury_model' = h /\ UNCHANGED performance_model
    ELSE performance_model' = h /\ UNCHANGED injury_model

NoRequest == [endpoint |-> "none"]

NoResponse == [status |-> 0]

\* ModelManager(): both handles None, models_loaded False.
ManagerInit ==
    /\ injury_model = "None"
    /\ performance_model = "None"
    /\ models_loaded = FALSE

Init ==
    /\ ManagerInit
    /\ disk \in [SlotSet -> {"missing", "ok", "corrupt"}]
    /\ pc = [t \in Threads |-> "idle"]
    /\ cur = [t \in Threads |-> "injury"]
    /\ fault = [t \in Threads |-> NoFault]
    /\ outcome = [t \in Threads |-> "none"]
    /\ log = [t \in Threads |-> <<>>]
    /\ disk0 = [t \in Threads |-> disk]
    /\ ncalls = 0
    /\ ntrain = [s \in SlotSet |-> 0]
    /\ nsave = [s \in SlotSet |-> 0]
    /\ okInit = [s \in SlotSet |-> FALSE]
    /\ failed = FALSE
    /\ req = NoRequest
    /\ resp = NoResponse

\* A bug init_models could have: the early return is missing.
AlreadyLoaded_never == FALSE

\* `if self.models_loaded: return`
AlreadyLoaded == models_loaded

\* A bug init_models could have: the existence test is skipped, the load always tried.
Exists_always(s) == TRUE

\* Path.exists()
Exists(s) == disk[s] # "missing"

\* The except clause: log and re-raise; the call ends.
Raise(t) ==
    /\ pc' = [pc EXCEPT ![t] = "idle"]
    /\ outcome' = [outcome EXCEPT ![t] = "raised"]
    /\ failed' = TRUE
    /\ UNCHANGED cur

\* After a slot's branch: on to the performance slot, or to the last statement.
Advance(t) ==
    IF cur[t] = "injury"
    THEN /\ cur' = [cur EXCEPT ![t] = "performance"]
         /\ pc' = [pc EXCEPT ![t] = "exists"]
    ELSE /\ pc' = [pc EXCEPT ![t] = "done"]
         /\ UNCHANGED cur

\* init_models is entered: the models_loaded check.
init_models_enter(t, F) ==
    /\ pc[t] = "idle"
    /\ ncalls < MaxCalls
    /\ ncalls' = ncalls + 1
    /\ log' = [log EXCEPT ![t] = <<>>]
    /\ disk0' = [disk0 EXCEPT ![t] = disk]
    /\ IF AlreadyLoaded
       THEN /\ outcome' = [outcome EXCEPT ![t] = "returned"]
            /\ UNCHANGED <<pc, cur, fault>>
       ELSE /\ outcome' = [outcome EXCEPT ![t] = "running"]
            /\ pc' = [pc EXCEPT ![t] = "exists"]
            /\ cur' = [cur EXCEPT ![t] = "injury"]
            /\ \E f \in F : fault' = [fault EXCEPT ![t] = f]
    /\ UNCHANGED <<manager, disk, ntrain, nsave, history, http>>

\* `if <PATH>.exists():`
init_models_exists(t) ==
    /\ pc[t] = "exists"
    /\ pc' = [pc EXCEPT ![t] = IF Exists(cur[t]) THEN "load" ELSE "train"]
    /\ UNCHANGED <<manager, disk, cur, fault, outcome, log, disk0, counters,
                   history, http>>

\* `self.<slot>_model = joblib.load(<PATH>)`
init_models_load(t) ==
    LET s == cur[t] IN
    /\ pc[t] = "load"
    /\ log' = [log EXCEPT ![t] = Append(@, <<s, "load">>)]
    /\ IF disk[s] = "ok" /\ fault[t] # <<s, "load">>
       THEN /\ SetHandle(s, "loaded")
            /\ okInit' = [okInit EXCEPT ![s] = TRUE]
            /\ Advance(t)
            /\ UNCHANGED <<outcome, failed>>
       ELSE /\ Raise(t)
            /\ UNCHANGED <<injury_model, performance_model, okInit>>
    /\ UNCHANGED <<models_loaded, disk, fault, disk0, counters, http>>

\* `self.<slot>_model = self._train_<slot>_model()`
init_models_train(t) ==
    LET s == cur[t] IN
    /\ pc[t] = "train"
    /\ log' = [log EXCEPT ![t] = Append(@, <<s, "train">>)]
    /\ ntrain' = [ntrain EXCEPT ![s] = @ + 1]
    /\ IF fault[t] # <<s, "train">>
       THEN /\ SetHandle(s, "trained")
            /\ pc' = [pc EXCEPT ![t] = "dump"]
            /\ UNCHANGED <<cur, outcome, failed>>
       ELSE /\ Raise(t)
            /\ UNCHANGED <<injury_model, performance_model>>
    /\ UNCHANGED <<models_loaded, disk, fault, disk0, ncalls, nsave, okInit, http>>

\* `joblib.dump(self.<slot>_model, <PATH>)`; a failed dump may leave a partial file.
init_models_dump(t) ==
    LET s == cur[t] IN
    /\ pc[t] = "dump"
    /\ log' = [log EXCEPT ![t] = Append(@, <<s, "save">>)]
    /\ nsave' = [nsave EXCEPT ![s] = @ + 1]
    /\ IF fault[t] # <<s, "save">>
       THEN /\ disk' = [disk EXCEPT ![s] = "ok"]
            /\ okInit' = [okInit EXCEPT ![s] = TRUE]
            /\ Advance(t)
            /\ UNCHANGED <<outcome, failed>>
       ELSE /\ \E d \in {disk[s], "corrupt"} : disk' = [disk EXCEPT ![s] = d]
            /\ Raise(t)
            /\ UNCHANGED okInit
    /\ UNCHANGED <<manager, fault, disk0, ncalls, ntrain, http>>

\* `self.models_loaded = True`, and the call returns.
init_models_done(t) ==
    /\ pc[t] = "done"
    /\ models_loaded' = TRUE
    /\ pc' = [pc EXCEPT ![t] = "idle"]
    /\ outcome' = [outcome EXCEPT ![t] = "ok"]
    /\ UNCHANGED <<injury_model, performance_model, disk, cur, fault, log, disk0,
                   counters, history, http>>

\* ------------------------------------------------------------- prediction

\* np.clip(x, 0, 1)
Clip(x) == IF x < 0 THEN 0 ELSE IF x > 100 THEN 100 ELSE x

\* predict_injury, "Determine category"
RiskCategory(risk_score) ==
    IF risk_score < 30 THEN "LOW"
    ELSE IF risk_score < 60 THEN "MEDIUM"
    ELSE IF risk_score < 80 THEN "HIGH"
    ELSE "CRITICAL"

\* InjuryPredictor._categorize_risk
categorize_risk(risk) ==
    IF risk < 25 THEN "LOW"
    ELSE IF risk < 50 THEN "MEDIUM"
    ELSE IF risk < 75 THEN "HIGH"
    ELSE "CRITICAL"

\* InjuryPredictor._get_recommendations
get_recommendations(risk) ==
    (IF risk > 50 THEN <<"Reduce playing time", "Focus on recovery">> ELSE <<>>)
    \o (IF risk > 70 THEN <<"Medical evaluation recommended">> ELSE <<>>)

TrainingLoadHigh(request) == request.training_load > 80

\* A bug predict_injury could have: `<=` for `<` in the sleep rule.
SleepLow_inclusive(request) == request.sleep_hours <= 700

SleepLow(request) == request.sleep_hours < 700

InjuryHistoryHigh(request) == request.injury_history > 2

MatchesHigh(request) == request.matches_played > 30

\* predict_injury, "Generate recommendations based on features"
Recommendations(request) ==
    LET r1 == IF TrainingLoadHigh(request)
              THEN <<"Reduce training intensity">> ELSE <<>>
        r2 == IF SleepLow(request)
              THEN r1 \o <<"Improve sleep quality - aim for 8+ hours">> ELSE r1
        r3 == IF InjuryHistoryHigh(request)
              THEN r2 \o <<"Work with physio on injury prevention">> ELSE r2
        r4 == IF MatchesHigh(request)
              THEN r3 \o <<"Monitor recovery between matches">> ELSE r3
    IN  IF r4 = <<>> THEN <<"Continue current routine - low risk">> ELSE r4

\* int(base_minutes * (0.7 + normalized_score * 0.3)) in double arithmetic.  On the
\* two-decimal grid the product is an integer only at 0 and 1; at 0 the double
\* 90 * 0.7 is 62.99999999999999, which int() truncates to 62.
ExpectedMinutes(normalized_score) ==
    IF normalized_score = 0 THEN 62
    ELSE (6300 + 27 * normalized_score) \div 100

\* predict_performance, "Trend determination"
Trend(normalized_score) ==
    IF normalized_score > 70 THEN "improving"
    ELSE IF normalized_score > 40 THEN "stable"
    ELSE "declining"

\* HTTPException(status_code=500, detail=...)
NotLoaded(detail) == [status |-> 500, detail |-> detail]

\* pydantic rejects a response field outside its Field(ge=0, le=1).
ValidationError == [status |-> 500, detail |-> "ValidationError"]

\* The score predict_injury classifies and returns.
InjuryScore(raw) == raw

\* PredictionResponse(...)
PredictionResponse(request, risk_score) ==
    IF risk_score < 0 \/ risk_score > 100
    THEN ValidationError
    ELSE [status |-> 200,
          injury_risk |-> risk_score,
          risk_category |-> RiskCategory(risk_score),
          confidence |-> 85,
          recommendations |-> Recommendations(request)]

\* PerformanceResponse(...)
PerformanceResponse(raw) ==
    LET normalized_score == Clip(raw) IN
    [status |-> 200,
     performance_score |-> normalized_score,
     confidence |-> 82,
     trend |-> Trend(normalized_score),
     expected_minutes |-> ExpectedMinutes(normalized_score)]

\* What a request finds of its slot: initialised, being initialised, or neither
\* (never initialised, or its initialisation failed).
SlotStatus(s) ==
    IF okInit[s] THEN "ready"
    ELSE IF \E t \in Threads : pc[t] # "idle" /\ cur[t] = s THEN "initializing"
    ELSE "not_ready"

\* `if not self.<slot>_model`
Missing(s) == Handle(s) = "None"

\* ModelManager.predict_injury
predict_injury(P, R) ==
    \E request \in P :
    \E raw \in IF Missing("injury") THEN {0} ELSE R :
        /\ req' = [endpoint |-> "injury", profile |-> request, raw |-> raw,
                   slot |-> SlotStatus("injury")]
        /\ resp' = IF Missing("injury")
                   THEN NotLoaded("Injury model not loaded")
                   ELSE PredictionResponse(request, InjuryScore(raw))
        /\ UNCHANGED <<manager, disk, threads, counters, history>>

\* ModelManager.predict_performance
predict_performance(R) ==
    \E raw \in IF Missing("performance") THEN {0} ELSE R :
        /\ req' = [endpoint |-> "performance", raw |-> raw,
                   slot |-> SlotStatus("performance")]
        /\ resp' = IF Missing("performance")
                   THEN NotLoaded("Performance model not loaded")
                   ELSE PerformanceResponse(raw)
        /\ UNCHANGED <<manager, disk, threads, counters, history>>

\* InjuryPredictor.predict
InjuryPredictor_predict(R) ==
    \E risk \in R :
        /\ req' = [endpoint |-> "predictor", raw |-> risk]
        /\ resp' = [status |-> 200,
                    injury_risk |-> risk,
                    risk_category |-> categorize_risk(risk),
                    recommendations |-> get_recommendations(risk)]
        /\ UNCHANGED <<manager, disk, threads, counters, history>>

\* GET /models/status
model_status ==
    [injury_model_loaded |-> injury_model # "None",
     performance_model_loaded |-> performance_model # "None",
     models_ready |-> models_loaded]

\* The process is stopped between calls and started again: a new ModelManager(),
\* the files as they were left.
ModelManager_init ==
    /\ \A t \in Threads : pc[t] = "idle"
    /\ injury_model' = "None"
    /\ performance_model' = "None"
    /\ models_loaded' = FALSE
    /\ outcome' = [t \in Threads |-> "none"]
    /\ log' = [t \in Threads |-> <<>>]
    /\ disk0' = [t \in Threads |-> disk]
    /\ fault' = [t \in Threads |-> NoFault]
    /\ cur' = [t \in Threads |-> "injury"]
    /\ okInit' = [s \in SlotSet |-> FALSE]
    /\ failed' = FALSE
    /\ UNCHANGED <<disk, pc, counters, http>>

\* ---------------------------------------------------------- specifications

init_models(t, F) ==
    \/ init_models_enter(t, F)
    \/ init_models_exists(t)
    \/ init_models_load(t)
    \/ init_models_train(t)
    \/ init_models_dump(t)
    \/ init_models_done(t)

\* init_models called by the threads T, the environment failing as F allows.
Lifecycle(T, F) == \E t \in T : init_models(t, F)

\* One caller of init_models at a time (the startup hook), any failure, and
\* requests arriving at any moment.
Next ==
    \/ Lifecycle(SeqThreads, Faults)
    \/ predict_injury(LifecycleProfiles, LifecycleRaw)
    \/ predict_performance(LifecycleRaw)

Spec == Init /\ [][Next]_vars

\* The prediction functions over all their inputs, around a start-up in which
\* nothing fails.
NextPredict ==
    \/ Lifecycle(SeqThreads, {NoFault})
    \/ predict_injury(Profiles, InjuryRaw)
    \/ predict_performance(PerformanceRaw)
    \/ InjuryPredictor_predict(PredictorRaw)

SpecPredict == Init /\ [][NextPredict]_vars

\* Two threads in init_models at once, no model file persisted yet.
InitConc == Init /\ disk = [s \in SlotSet |-> "missing"]

NextConc == Lifecycle(Threads, Faults)

SpecConc == InitConc /\ [][NextConc]_vars

\* A restart between calls: the later initialisation of a fresh manager.
NextRestart ==
    \/ Lifecycle(SeqThreads, Faults)
    \/ ModelManager_init

SpecRestart == Init /\ [][NextRestart]_vars

\* ------------------------------------------------------------------ claims

Idle == \A t \in Threads : pc[t] = "idle"

\* C1: once no init_models call is running, a slot is loaded (its handle is set,
\* /models/status reports it, its endpoint would answer) only if its load
\* succeeded or its train and its save both succeeded.
C1_LoadedOnlyAfterSuccess ==
    Idle =>
        /\ model_status.injury_model_loaded => okInit["injury"]
        /\ model_status.performance_model_loaded => okInit["performance"]
        /\ \A s \in SlotSet : ~Missing(s) => okInit[s]

\* C2: two concurrent init_models calls that start without model files and meet no
\* failure train and save each slot at most once, and exactly once when both
\* have returned.
C2_OneTrainAndSavePerSlot ==
    ~failed =>
        \A s \in SlotSet :
            /\ ntrain[s] <= 1
            /\ nsave[s] <= 1
            /\ (\A t \in Threads : outcome[t] \in {"ok", "returned"})
                   => ntrain[s] = 1 /\ nsave[s] = 1

\* C3: a call of init_models made when the manager is ready changes nothing: no
\* thread moves to the existence test, nothing is loaded, trained or saved, and
\* the handles and the loaded flag stay as they are.
C3_ReadyCallIsNoOp ==
    [][(models_loaded /\ ncalls' # ncalls) =>
           /\ pc' = pc
           /\ manager' = manager
           /\ disk' = disk
           /\ ntrain' = ntrain
           /\ nsave' = nsave
           /\ \A t \in Threads : log'[t] = <<>> \/ log'[t] = log[t]]_vars

C3_Witness ==
    /\ models_loaded
    /\ \E t \in Threads : outcome[t] = "returned" /\ log[t] = <<>>

\* The operations of one call on slot s, in order.
SlotOps(ops, s) ==
    LET mine == SelectSeq(ops, LAMBDA op : op[1] = s)
    IN  [i \in 1..Len(mine) |-> mine[i][2]]

IsPrefix(a, b) ==
    /\ Len(a) <= Len(b)
    /\ \A i \in 1..Len(a) : a[i] = b[i]

\* C4: a call loads a slot exactly when its file exists and otherwise trains and
\* saves it: a call that returns normally has, for a slot whose file was missing,
\* trained once and saved once (and nothing else) and left the slot loaded and
\* its file present, and for a slot whose file was there, loaded once and neither
\* trained nor saved.
C4_LoadIffFileExists ==
    \A t \in SeqThreads :
        /\ pc[t] = "load" => disk[cur[t]] # "missing"
        /\ pc[t] \in {"train", "dump"} => disk[cur[t]] = "missing"
        /\ \A s \in SlotSet :
            LET want == IF disk0[t][s] = "missing"
                        THEN <<"train", "save">> ELSE <<"load">>
            IN  /\ IsPrefix(SlotOps(log[t], s), want)
                /\ outcome[t] = "ok" =>
                       /\ SlotOps(log[t], s) = want
                       /\ ~Missing(s)
                       /\ disk[s] = "ok"

\* Both slots were trained and saved once by a first call, and a later call by a
\* fresh manager has loaded both.
C4_Witness ==
    \E t \in SeqThreads :
        /\ outcome[t] = "ok"
        /\ ntrain = [s \in SlotSet |-> 1]
        /\ nsave = [s \in SlotSet |-> 1]
        /\ log[t] = << <<"injury", "load">>, <<"performance", "load">> >>

\* C5: when a call has failed in one slot and every step of the other slot would
\* have succeeded, the other slot is loaded.
C5_FailureConfinedToSlot ==
    \A t \in SeqThreads :
        LET o == Other(cur[t]) IN
        (/\ outcome[t] = "raised"
         /\ fault[t][1] # o
         /\ disk[o] # "corrupt") => ~Missing(o)

\* C6: a request for a slot that is not ready (never initialised, or its
\* initialisation failed) is answered with the slot's "model not loaded" error.
C6_UnreadySlotAnswersNotLoaded ==
    /\ (req.endpoint = "injury" /\ req.slot = "not_ready")
           => resp = NotLoaded("Injury model not loaded")
    /\ (req.endpoint = "performance" /\ req.slot = "not_ready")
           => resp = NotLoaded("Performance model not loaded")

\* C7: Ready and Failed are terminal: once ready, the loaded flag stays true and
\* the handles stay as they are; once a call has failed, no step loads, trains or
\* saves again, and none makes the manager ready.
C7_ReadyAndFailedAreTerminal ==
    [][/\ models_loaded =>
              /\ models_loaded'
              /\ injury_model' = injury_model
              /\ performance_model' = performance_model
       /\ failed =>
              /\ \A t \in Threads : Len(log'[t]) <= Len(log[t])
              /\ ntrain' = ntrain
              /\ nsave' = nsave
              /\ ~models_loaded']_vars

\* C8: whatever the model returns, the injury risk and the performance score are
\* clamped into [0,1] before they are classified and returned.
C8_ScoresClamped ==
    /\ (req.endpoint = "injury" /\ resp # NotLoaded("Injury model not loaded")) =>
           /\ resp.status = 200
           /\ resp.injury_risk = Clip(req.raw)
           /\ resp.risk_category = RiskCategory(Clip(req.raw))
    /\ (req.endpoint = "performance"
            /\ resp # NotLoaded("Performance model not loaded")) =>
           /\ resp.status = 200
           /\ resp.performance_score = Clip(req.raw)
           /\ resp.trend = Trend(Clip(req.raw))
           /\ resp.expected_minutes = ExpectedMinutes(Clip(req.raw))

\* C9: every risk classifier of the source puts a score of [0,1] in the category
\* of the table [0,0.3) LOW, [0.3,0.6) MEDIUM, [0.6,0.8) HIGH, [0.8,1] CRITICAL
\* (0.3, 0.6 and 0.8 in MEDIUM, HIGH and CRITICAL), which makes the category
\* non-decreasing in the score.
C9_ClassifiersFollowTable ==
    (req.endpoint \in {"injury", "predictor"} /\ resp.status = 200) =>
        LET x == resp.injury_risk
            c == resp.risk_category
        IN  /\ c \in {"LOW", "MEDIUM", "HIGH", "CRITICAL"}
            /\ c = "LOW" <=> (0 <= x /\ x < 30)
            /\ c = "MEDIUM" <=> (30 <= x /\ x < 60)
            /\ c = "HIGH" <=> (60 <= x /\ x < 80)
            /\ c = "CRITICAL" <=> (80 <= x /\ x <= 100)

\* C10: the recommendations of predict_injury hold one message per rule whose
\* condition holds on the profile, in the order of the rules (training load above
\* 0.8, sleep below 7 hours, more than 2 injuries, more than 30 matches), and
\* hold the fallback message alone exactly when no condition holds.
C10_RecommendationsFollowProfile ==
    (req.endpoint = "injury" /\ resp.status = 200) =>
        LET p == req.profile
            recs == resp.recommendations
            holds == <<p.training_load > 80, p.sleep_hours < 700,
                       p.injury_history > 2, p.matches_played > 30>>
            msgs == <<"Reduce training intensity",
                      "Improve sleep quality - aim for 8+ hours",
                      "Work with physio on injury prevention",
                      "Monitor recovery between matches">>
            fallback == "Continue current routine - low risk"
            at(m) == {j \in 1..Len(recs) : recs[j] = m}
            none == \A i \in 1..4 : ~holds[i]
        IN  /\ Len(recs) >= 1
            /\ \A i \in 1..4 : Cardinality(at(msgs[i])) = IF holds[i] THEN 1 ELSE 0
            /\ Cardinality(at(fallback)) = IF none THEN 1 ELSE 0
            /\ \A j \in 1..Len(recs) :
                   recs[j] = fallback \/ \E i \in 1..4 : recs[j] = msgs[i]
            /\ \A i, k \in 1..4 : \A j \in at(msgs[i]) : \A l \in at(msgs[k]) :
                   i < k => j < l

\* The three rules other than the sleep rule hold and the sleep is exactly 7
\* hours: three messages, the sleep one not among them.
C10_Witness ==
    /\ req.endpoint = "injury"
    /\ resp.status = 200
    /\ req.profile.sleep_hours = 700
    /\ Len(resp.recommendations) = 3

====
